---- MODULE Spec2Model ----
(***************************************************************************)
(* Model of shader-web-background: doShade (setup of the pass list and     *)
(* the animate loop) over GlWrapper, ProgramWrapper,                       *)
(* BufferedProgramWrapper and DoubleBuffer of webgl-utils.js.              *)
(*                                                                         *)
(* Passes are identified by their position 1..n in Object.keys(sources).   *)
(* Texture handles are positive integers, Null is the JavaScript null.     *)
(* A texture's content is one value (what every pixel of it reads).        *)
(* The shaders of the model are the feedback scenario: a buffered pass     *)
(* writes (value of its own read texture) + 1, the last pass shows the     *)
(* write texture of the first pass (a constant when it is the only pass).  *)
(***************************************************************************)
EXTENDS Integers, Sequences, FiniteSets, TLC

\* ---- bounds of the model ----
MaxPasses == 3
MaxDim == 1
MaxIterations == 3
MaxNow == 1
MaxTablePasses == 2

\* ---- program state ----
VARIABLES
  n,            \* sourceIds.length
  pc,           \* position of doShade / animate
  index,        \* index of the running map / forEach
  shaders,      \* per compiled pass: COMPILE_STATUS and LINK_STATUS
  programs,     \* the wrappers returned by wrapProgram, in list order
  buffers,      \* glWrapper.context.buffers: pass -> DoubleBuffer fields
  textures,     \* live textures: handle -> width, height, content
  nextTexture,  \* number of textures created so far
  canvas,       \* width, height (backing) and clientWidth, clientHeight
  viewport,     \* last gl.viewport size
  frame, time, minDimension,   \* the closure variables of doShade
  glUniforms,   \* per pass: last values uploaded by the setters R, T, F, D
  screen,       \* value shown on the canvas by the last pass
  now,          \* performance.now()
  pending,      \* callbacks scheduled by requestAnimationFrame and not run
  error,        \* error thrown out of doShade, "none" when none
  iteration,    \* history: number of animate invocations started
  calls,        \* history: calls made by the running iteration, in order
  lastInit,     \* history: pass -> arguments of its latest init, <<>> if none
  scripts,      \* input: ids of the shader <script> elements, document order
  config,       \* input: fallback flag and, per id, the uniform names of
                \*        config.shaders[id].uniforms, in key order
  declared,     \* input: per id, the uniform names its fragment source declares
  host,         \* input: contexts and extensions the canvas can give
  sourceIds,    \* Object.keys(sources)
  strategy,     \* glWrapper.strategy, "none" before construction
  defaultUniforms, \* the defaultUniforms object: name and origin of each setter
  framebuffers, \* live framebuffer objects
  classList,    \* canvas.classList
  thrown,       \* error that left shade, "none" when none
  gl,           \* bindings of the GL context: program in use, framebuffer,
                \* colour attachment per framebuffer, texture on unit 0
  glCalls       \* history: GL calls and setter calls of the latest pass draw

vars == <<n, pc, index, shaders, programs, buffers, textures, nextTexture,
          canvas, viewport, frame, time, minDimension, glUniforms, screen,
          now, pending, error, iteration, calls, lastInit, scripts, config,
          declared, host, sourceIds, strategy, defaultUniforms, framebuffers,
          classList, thrown, gl, glCalls>>

inputs == <<scripts, config, declared, host>>

Null == 0

ConstantColor == 7

Dims == 0..MaxDim

Min(a, b) == IF a < b THEN a ELSE b

Range(f) == {f[k] : k \in DOMAIN f}

\* ---- inputs ----
\* ids of the default pass lists
PassNames == <<"a", "b", "c", "d", "e">>

DefaultScripts(k) == SubSeq(PassNames, 1, k)

\* ids a document may give its shader scripts ("1" and "2" are array indices)
ScriptIds == {"a", "b", "1", "2"}

BuiltinNames == <<"R", "T", "F", "D">>

\* uniform tables a caller may give a pass: none, a new name, a built-in's name
CustomUniforms == {<<>>, <<"X">>, <<"F">>}

\* uniforms a fragment source may declare
Declarations == {{"R", "T", "F", "D"}, {"F", "X"}}

Extensions ==
  {"EXT_color_buffer_float", "OES_texture_half_float",
   "OES_texture_half_float_linear"}

FullHost == [webgl2 |-> TRUE, webgl |-> TRUE, extensions |-> Extensions]

\* ---- part_000: shade ----
\* the reduce over the scripts: map[script.id] = script.text.trim(); the map
\* is kept as its keys in insertion order
SourcesOf(ids) ==
  LET RECURSIVE Reduce(_)
      Reduce(k) ==
        IF k = 0 THEN <<>>
        ELSE LET map == Reduce(k - 1)
             IN  IF ids[k] \in Range(map) THEN map ELSE Append(map, ids[k])
  IN  Reduce(Len(ids))

\* the value of a key that is an array index, -1 for any other key
ArrayIndex(key) ==
  CASE key = "1" -> 1
    [] key = "2" -> 2
    [] OTHER -> -1

\* Object.keys: array-index keys ascending, then the others as inserted
ObjectKeys(inserted) ==
  SortSeq(SelectSeq(inserted, LAMBDA k : ArrayIndex(k) >= 0),
          LAMBDA x, y : ArrayIndex(x) < ArrayIndex(y))
  \o SelectSeq(inserted, LAMBDA k : ArrayIndex(k) < 0)

\* ---- part_000: isResized / updateSize ----
\* mutant: only the width is compared
isResizedWidthOnly(c) == c.width # c.clientWidth

isResized(c) ==
  (c.width # c.clientWidth) \/ (c.height # c.clientHeight)

updateSize(c) ==
  [c EXCEPT !.width = c.clientWidth, !.height = c.clientHeight]

\* ---- webgl-utils.js: GlWrapper ----
\* mutant: the compile status is not checked
loadShaderNeverThrows(compileStatus) == FALSE

\* loadShader throws the GlError when COMPILE_STATUS is false
loadShaderThrows(compileStatus) == ~compileStatus

\* mutant: a missing extension is not checked
getExtensionUnchecked(h, extension) == TRUE

\* WebGlStrategy.getExtension: check(gl.getExtension(extension), ...)
getExtension(h, extension) == extension \in h.extensions

\* new GlWrapper(canvas, glErrorFactory, contextAttrs): the context, then the
\* strategy's constructor; every failed check throws glErrorFactory(message),
\* which doShade makes a shaderWebBackground.GlError
GlWrapperConstructor(h) ==
  IF ~(h.webgl2 \/ h.webgl)
  THEN [thrown |-> "GlError", strategy |-> "none"]
  ELSE IF h.webgl2
  THEN IF getExtension(h, "EXT_color_buffer_float")
       THEN [thrown |-> "none", strategy |-> "WebGl2Strategy"]
       ELSE [thrown |-> "GlError", strategy |-> "none"]
  ELSE IF /\ getExtension(h, "OES_texture_half_float")
          /\ getExtension(h, "OES_texture_half_float_linear")
       THEN [thrown |-> "none", strategy |-> "WebGl1Strategy"]
       ELSE [thrown |-> "GlError", strategy |-> "none"]

\* initProgram: both loadShader calls, then linkProgram; the link status
\* stays in the program object and is never read
initProgram(vertexStatus, fragmentStatus, linkStatus) ==
  IF loadShaderThrows(vertexStatus) \/ loadShaderThrows(fragmentStatus)
  THEN [thrown |-> TRUE, linked |-> FALSE]
  ELSE [thrown |-> FALSE, linked |-> linkStatus]

\* mutant: the last pass is buffered too
IsBufferedInclusive(idx, imageIndex) == idx <= imageIndex

IsBuffered(idx, imageIndex) == idx < imageIndex

\* new DoubleBuffer(gl, strategy)
DoubleBuffer(fbo) == [fbo |-> fbo, inTexture |-> Null, outTexture |-> Null]

\* Object.assign(defaultUniforms, shaders[id] && shaders[id].uniforms): every
\* given setter is written into the target itself, replacing a setter of the
\* same name in place and adding a new name at the end
ObjectAssign(target, id, names) ==
  LET RECURSIVE Assign(_)
      Assign(k) ==
        IF k = 0 THEN target
        ELSE LET t == Assign(k - 1)
                 setter == [name |-> names[k], from |-> id]
             IN  IF \E j \in DOMAIN t : t[j].name = names[k]
                 THEN [j \in DOMAIN t |->
                         IF t[j].name = names[k] THEN setter ELSE t[j]]
                 ELSE Append(t, setter)
  IN  Assign(Len(names))

\* mutant: a uniform is kept whether or not its location was found
wrapProgramKeepsAll(id, program, buffered, uniforms, decl) ==
  [id |-> id, linked |-> program.linked, buffered |-> buffered,
   uniforms |-> {uniforms[j].name : j \in DOMAIN uniforms},
   setters |-> uniforms]

\* wrapProgram / ProgramWrapper constructor: the wrapper object; a uniform is
\* kept when getUniformLocation finds it, that is when the program is linked
\* and its source declares the name
wrapProgram(id, program, buffered, uniforms, decl) ==
  [id |-> id, linked |-> program.linked, buffered |-> buffered,
   uniforms |-> {uniforms[j].name : j \in
                   {k \in DOMAIN uniforms :
                      program.linked /\ uniforms[k].name \in decl}},
   setters |-> SelectSeq(uniforms,
                 LAMBDA u : program.linked /\ u.name \in decl)]

\* ---- webgl-utils.js: DoubleBuffer ----
\* mutant: the swap without the temporary
swapTexturesNoTmp(b) == [b EXCEPT !.outTexture = b.inTexture]

swapTextures(b) ==
  [b EXCEPT !.outTexture = b.inTexture, !.inTexture = b.outTexture]

\* mutant: only the read texture is deleted
deleteTexturesInOnly(b, texs) ==
  [t \in (DOMAIN texs) \ {b.inTexture} |-> texs[t]]

\* deleteTextures: gl.deleteTexture of both references (null is ignored)
deleteTextures(b, texs) ==
  [t \in (DOMAIN texs) \ {b.inTexture, b.outTexture} |-> texs[t]]

\* createTexture: a new handle with storage of the given size, reading 0
createTexture(handle, width, height, texs) ==
  (handle :> [width |-> width, height |-> height, val |-> 0]) @@ texs

\* mutant: one texture is created and used for both roles
DoubleBufferInitShared(b, next) ==
  [b EXCEPT !.inTexture = next + 1, !.outTexture = next + 1]

\* DoubleBuffer.init: the two handles returned by createTexture
DoubleBufferInit(b, next) ==
  [b EXCEPT !.inTexture = next + 1, !.outTexture = next + 2]

\* the state every run starts from, before its inputs are chosen
Start ==
  /\ n = 0
  /\ pc = "shade"
  /\ index = 1
  /\ shaders = <<>>
  /\ programs = <<>>
  /\ buffers = <<>>
  /\ textures = <<>>
  /\ nextTexture = 0
  /\ viewport = <<0, 0>>
  /\ frame = 0
  /\ time = 0
  /\ minDimension = 0
  /\ glUniforms = <<>>
  /\ screen = 0
  /\ now = 0
  /\ pending = 0
  /\ error = "none"
  /\ iteration = 0
  /\ calls = <<>>
  /\ lastInit = <<>>
  /\ sourceIds = <<>>
  /\ strategy = "none"
  /\ defaultUniforms = [j \in 1..Len(BuiltinNames) |->
                          [name |-> BuiltinNames[j], from |-> "default"]]
  /\ framebuffers = {}
  /\ classList = {}
  /\ thrown = "none"
  /\ gl = [program |-> Null, framebuffer |-> Null, texture |-> Null,
           color |-> <<>>]
  /\ glCalls = <<>>

DefaultConfig(ids) ==
  [fallback |-> FALSE, shaders |-> [id \in Range(ids) |-> <<>>]]

DefaultDeclared(ids) == [id \in Range(ids) |-> {"R", "T", "F", "D"}]

\* 1..MaxPasses passes with built-in uniforms only, on a host with every
\* context and extension, for every presented size
Init ==
  /\ Start
  /\ scripts \in {DefaultScripts(k) : k \in 1..MaxPasses}
  /\ config = DefaultConfig(scripts)
  /\ declared = DefaultDeclared(scripts)
  /\ host = FullHost
  /\ canvas \in [width : {MaxDim}, height : {MaxDim},
                 clientWidth : Dims, clientHeight : Dims]

\* shade: the checks on the scripts, the sources map, then doShade is entered
\* (a failed check throws the ConfigError, outside the try block)
Shade ==
  /\ pc = "shade"
  /\ IF Len(scripts) = 0
     THEN /\ thrown' = "ConfigError"
          /\ pc' = "rejected"
          /\ UNCHANGED <<sourceIds, n>>
     ELSE /\ sourceIds' = ObjectKeys(SourcesOf(scripts))
          /\ n' = Len(sourceIds')
          /\ pc' = "construct"
          /\ UNCHANGED thrown
  /\ UNCHANGED <<index, shaders, programs, buffers, textures, nextTexture,
                 canvas, viewport, frame, time, minDimension, glUniforms,
                 screen, now, pending, error, iteration, calls, lastInit,
                 inputs, strategy, defaultUniforms, framebuffers, classList,
                 gl, glCalls>>

\* doShade: new GlWrapper(canvas, message => new GlError(message), attrs)
NewGlWrapper ==
  /\ pc = "construct"
  /\ LET wrapper == GlWrapperConstructor(host)
     IN  IF wrapper.thrown # "none"
         THEN /\ error' = wrapper.thrown
              /\ pc' = "failed"
              /\ UNCHANGED strategy
         ELSE /\ strategy' = wrapper.strategy
              /\ pc' = "setup"
              /\ UNCHANGED error
  /\ UNCHANGED <<n, index, shaders, programs, buffers, textures, nextTexture,
                 canvas, viewport, frame, time, minDimension, glUniforms,
                 screen, now, pending, iteration, calls, lastInit, inputs,
                 sourceIds, defaultUniforms, framebuffers, classList, thrown,
                 gl, glCalls>>

\* mutant: the error is swallowed whatever config.fallback is
ShadeCatchSwallows ==
  /\ pc = "failed"
  /\ thrown = "none"
  /\ "fallback" \notin classList
  /\ classList' = classList \cup {"fallback"}
  /\ UNCHANGED <<n, pc, index, shaders, programs, buffers, textures,
                 nextTexture, canvas, viewport, frame, time, minDimension,
                 glUniforms, screen, now, pending, error, iteration, calls,
                 lastInit, inputs, sourceIds, strategy, defaultUniforms,
                 framebuffers, thrown, gl, glCalls>>

\* shade: catch (e) { if (config.fallback) classList.add(FALLBACK_CLASS)
\* else throw e }
ShadeCatch ==
  /\ pc = "failed"
  /\ thrown = "none"
  /\ "fallback" \notin classList
  /\ IF config.fallback
     THEN classList' = classList \cup {"fallback"} /\ UNCHANGED thrown
     ELSE thrown' = error /\ UNCHANGED classList
  /\ UNCHANGED <<n, pc, index, shaders, programs, buffers, textures,
                 nextTexture, canvas, viewport, frame, time, minDimension,
                 glUniforms, screen, now, pending, error, iteration, calls,
                 lastInit, inputs, sourceIds, strategy, defaultUniforms,
                 framebuffers, gl, glCalls>>

\* ---- doShade: sourceIds.map(...), one pass per step ----
SetupProgram ==
  /\ pc = "setup"
  /\ \E fragmentStatus \in BOOLEAN, linkStatus \in BOOLEAN :
       LET id == sourceIds[index]
           program == initProgram(TRUE, fragmentStatus, linkStatus)
           uniforms == ObjectAssign(defaultUniforms, id, config.shaders[id])
           buffered == IsBuffered(index, n)
       IN  IF program.thrown
           THEN /\ shaders' = Append(shaders,
                                  [compiled |-> fragmentStatus, linked |-> FALSE])
                /\ pc' = "failed"
                /\ error' = "GlError"
                /\ UNCHANGED <<index, programs, buffers, glUniforms, lastInit,
                               defaultUniforms, framebuffers, gl>>
           ELSE /\ shaders' = Append(shaders,
                                  [compiled |-> fragmentStatus, linked |-> program.linked])
                /\ defaultUniforms' = uniforms
                /\ programs' = Append(programs,
                      wrapProgram(id, program, buffered, uniforms, declared[id]))
                /\ buffers' = IF buffered
                              THEN (index :> DoubleBuffer(index)) @@ buffers
                              ELSE buffers
                /\ framebuffers' = IF buffered
                                   THEN framebuffers \cup {index}
                                   ELSE framebuffers
                /\ gl' = IF buffered
                         THEN [gl EXCEPT !.color = (index :> Null) @@ @]
                         ELSE gl
                /\ glUniforms' = Append(glUniforms,
                      [R |-> <<0, 0>>, T |-> 0, F |-> 0, D |-> 0, X |-> 0])
                /\ lastInit' = Append(lastInit, <<>>)
                /\ IF index = n
                   THEN pc' = "forceResize" /\ index' = 1
                   ELSE pc' = "setup" /\ index' = index + 1
                /\ UNCHANGED error
  /\ UNCHANGED <<n, textures, nextTexture, canvas, viewport, frame, time,
                 minDimension, screen, now, pending, iteration, calls,
                 inputs, sourceIds, strategy, classList, thrown, glCalls>>

\* doShade: canvas.width = 0; canvas.height = 0; then animate() is called
ForceResize ==
  /\ pc = "forceResize"
  /\ canvas' = [canvas EXCEPT !.width = 0, !.height = 0]
  /\ pc' = "animate"
  /\ UNCHANGED <<n, index, shaders, programs, buffers, textures, nextTexture,
                 viewport, frame, time, minDimension, glUniforms, screen,
                 now, pending, error, iteration, calls, lastInit>>
  /\ UNCHANGED <<inputs, sourceIds, strategy, defaultUniforms, framebuffers,
                 classList, thrown, gl, glCalls>>

\* ---- doShade: animate ----
Call(op, pass, width, height) == <<op, pass, width, height>>

\* time = performance.now() / 1000; if (isResized(canvas)) updateSize(canvas)
\* (time is kept in the clock's unit, the quotient is not an integer)
AnimatePoll ==
  /\ pc = "animate"
  /\ iteration < MaxIterations
  /\ iteration' = iteration + 1
  /\ time' = now
  /\ IF isResized(canvas)
     THEN /\ canvas' = updateSize(canvas)
          /\ calls' = <<Call("updateSize", 0, canvas'.width, canvas'.height)>>
          /\ pc' = "viewport"
     ELSE /\ canvas' = canvas
          /\ calls' = <<>>
          /\ pc' = "draw"
  /\ index' = 1
  /\ UNCHANGED <<n, shaders, programs, buffers, textures, nextTexture,
                 viewport, frame, minDimension, glUniforms, screen, now,
                 pending, error, lastInit>>
  /\ UNCHANGED <<inputs, sourceIds, strategy, defaultUniforms, framebuffers,
                 classList, thrown, gl, glCalls>>

\* glWrapper.updateViewportSize()
updateViewportSize ==
  /\ pc = "viewport"
  /\ viewport' = <<canvas.width, canvas.height>>
  /\ calls' = Append(calls, Call("viewport", 0, canvas.width, canvas.height))
  /\ pc' = "reset"
  /\ UNCHANGED <<n, index, shaders, programs, buffers, textures, nextTexture,
                 canvas, frame, time, minDimension, glUniforms, screen, now,
                 pending, error, iteration, lastInit>>
  /\ UNCHANGED <<inputs, sourceIds, strategy, defaultUniforms, framebuffers,
                 classList, thrown, gl, glCalls>>

\* mutant: the frame counter is not reset
AnimateResetKeepsFrame ==
  /\ pc = "reset"
  /\ minDimension' = Min(canvas.width, canvas.height)
  /\ calls' = Append(calls, Call("frameReset", 0, 0, 0))
  /\ pc' = "init"
  /\ index' = 1
  /\ UNCHANGED <<n, shaders, programs, buffers, textures, nextTexture,
                 canvas, viewport, frame, time, glUniforms, screen, now,
                 pending, error, iteration, lastInit>>
  /\ UNCHANGED <<inputs, sourceIds, strategy, defaultUniforms, framebuffers,
                 classList, thrown, gl, glCalls>>

\* minDimension = Math.min(canvas.width, canvas.height); frame = 0
AnimateReset ==
  /\ pc = "reset"
  /\ minDimension' = Min(canvas.width, canvas.height)
  /\ frame' = 0
  /\ calls' = Append(calls, Call("frameReset", 0, 0, 0))
  /\ pc' = "init"
  /\ index' = 1
  /\ UNCHANGED <<n, shaders, programs, buffers, textures, nextTexture,
                 canvas, viewport, time, glUniforms, screen, now, pending,
                 error, iteration, lastInit>>
  /\ UNCHANGED <<inputs, sourceIds, strategy, defaultUniforms, framebuffers,
                 classList, thrown, gl, glCalls>>

\* programs.forEach(program => program.init(canvas.width, canvas.height))
\* ProgramWrapper.init is empty, BufferedProgramWrapper.init runs
\* DoubleBuffer.init: deleteTextures, then createTexture twice
AnimateInit ==
  /\ pc = "init"
  /\ LET p == programs[index]
         w == canvas.width
         h == canvas.height
     IN  /\ IF p.buffered
            THEN LET b == buffers[index]
                     nb == DoubleBufferInit(b, nextTexture)
                 IN  /\ buffers' = [buffers EXCEPT ![index] = nb]
                     /\ textures' =
                          createTexture(nb.outTexture, w, h,
                            createTexture(nb.inTexture, w, h,
                              deleteTextures(b, textures)))
                     /\ nextTexture' = nextTexture + 2
            ELSE UNCHANGED <<buffers, textures, nextTexture>>
         /\ lastInit' = [lastInit EXCEPT ![index] = <<w, h>>]
         /\ calls' = Append(calls, Call("init", index, w, h))
  /\ IF index = Len(programs)
     THEN pc' = "draw" /\ index' = 1
     ELSE pc' = "init" /\ index' = index + 1
  /\ UNCHANGED <<n, shaders, programs, canvas, viewport, frame, time,
                 minDimension, glUniforms, screen, now, pending, error,
                 iteration>>
  /\ UNCHANGED <<inputs, sourceIds, strategy, defaultUniforms, framebuffers,
                 classList, thrown, gl, glCalls>>

\* what a setter supplied by the caller uploads
CustomValue == -1

\* the value of uniform name after the setters of p have run: the built-in
\* setter's value, a caller's setter's value, or the old one when the name did
\* not resolve
Uploaded(p, name, builtin, old) ==
  IF name \notin p.uniforms THEN old
  ELSE IF \E j \in DOMAIN p.setters :
            p.setters[j].name = name /\ p.setters[j].from = "default"
  THEN builtin
  ELSE CustomValue

\* ProgramWrapper.draw: every resolved uniform's setter uploads its value
SetUniforms(p, u) ==
  [R |-> Uploaded(p, "R", <<canvas.width, canvas.height>>, u.R),
   T |-> Uploaded(p, "T", time, u.T),
   F |-> Uploaded(p, "F", frame, u.F),
   D |-> Uploaded(p, "D", minDimension, u.D),
   X |-> Uploaded(p, "X", CustomValue, u.X)]

\* what a texture reads as (an unbound unit samples as 0)
Sample(texture) == IF texture = Null THEN 0 ELSE textures[texture].val

\* what drawArrays renders with the pass's program: the fragment shaders are
\* those of the scenario
FragmentOutput(pass) ==
  IF programs[pass].buffered THEN Sample(buffers[pass].inTexture) + 1
  ELSE IF Len(programs) = 1 THEN ConstantColor
  ELSE Sample(buffers[1].outTexture)

\* mutant: the read texture is attached as the colour target
DoubleBufferDrawIntoRead(b, value, texs) ==
  IF b.inTexture = Null THEN texs
  ELSE [texs EXCEPT ![b.inTexture].val = value]

\* DoubleBuffer.draw: outTexture is the colour attachment while call() runs,
\* inTexture is bound on unit 0; nothing is attached after it
DoubleBufferDraw(b, value, texs) ==
  IF b.outTexture = Null THEN texs
  ELSE [texs EXCEPT ![b.outTexture].val = value]

\* ---- the GL calls of a pass draw ----
GlCall(op, arg) == <<op, arg, 0>>

\* a call of a setter of the wrapper's uniforms table
SetterCall(setter) == <<"setter", setter.name, setter.from>>

\* GlWrapper.drawQuad(vertexAttrLocation)
drawQuad ==
  <<GlCall("bindBuffer", 1), GlCall("enableVertexAttribArray", 0),
    GlCall("vertexAttribPointer", 0), GlCall("drawArrays", 4),
    GlCall("bindBuffer", Null)>>

\* DoubleBuffer.draw(call): the calls around call()
DoubleBufferDrawCalls(b, call) ==
  <<GlCall("bindFramebuffer", b.fbo),
    GlCall("framebufferTexture2D", b.outTexture),
    GlCall("activeTexture", 0),
    GlCall("bindTexture", b.inTexture)>>
  \o call
  \o <<GlCall("framebufferTexture2D", Null),
       GlCall("bindTexture", Null),
       GlCall("bindFramebuffer", Null)>>

\* ProgramWrapper.draw / BufferedProgramWrapper.draw of the pass: useProgram,
\* every setter of this.uniforms, then drawer()
ProgramWrapperDraw(pass) ==
  <<GlCall("useProgram", pass)>>
  \o [j \in DOMAIN programs[pass].setters |->
        SetterCall(programs[pass].setters[j])]
  \o (IF programs[pass].buffered
      THEN DoubleBufferDrawCalls(buffers[pass], drawQuad)
      ELSE drawQuad)

\* the bindings after one call (a program that is not linked cannot be put
\* in use; an attachment needs a bound framebuffer)
GlApply(g, c) ==
  CASE c[1] = "useProgram" ->
         IF programs[c[2]].linked THEN [g EXCEPT !.program = c[2]] ELSE g
    [] c[1] = "bindFramebuffer" -> [g EXCEPT !.framebuffer = c[2]]
    [] c[1] = "framebufferTexture2D" ->
         IF g.framebuffer = Null THEN g
         ELSE [g EXCEPT !.color[g.framebuffer] = c[2]]
    [] c[1] = "bindTexture" -> [g EXCEPT !.texture = c[2]]
    [] OTHER -> g

\* the bindings after the first k calls of cs
RECURSIVE GlRun(_, _, _)
GlRun(g, cs, k) == IF k = 0 THEN g ELSE GlApply(GlRun(g, cs, k - 1), cs[k])

\* programs.forEach(program => program.draw(() => glWrapper.drawQuad(...)))
\* a program that is not linked cannot be used, its drawArrays draws nothing
AnimateDraw ==
  /\ pc = "draw"
  /\ LET p == programs[index]
     IN  /\ glUniforms' = [glUniforms EXCEPT ![index] = SetUniforms(p, @)]
         /\ IF ~p.linked
            THEN UNCHANGED <<textures, screen>>
            ELSE IF p.buffered
            THEN /\ textures' = DoubleBufferDraw(buffers[index],
                                                 FragmentOutput(index), textures)
                 /\ UNCHANGED screen
            ELSE /\ screen' = FragmentOutput(index)
                 /\ UNCHANGED textures
         /\ glCalls' = ProgramWrapperDraw(index)
         /\ gl' = GlRun(gl, glCalls', Len(glCalls'))
         /\ calls' = Append(calls, Call("draw", index, 0, 0))
  /\ IF index = Len(programs)
     THEN pc' = "frame" /\ index' = 1
     ELSE pc' = "draw" /\ index' = index + 1
  /\ UNCHANGED <<n, shaders, programs, buffers, nextTexture, canvas, viewport,
                 frame, time, minDimension, now, pending, error, iteration,
                 lastInit>>
  /\ UNCHANGED <<inputs, sourceIds, strategy, defaultUniforms, framebuffers,
                 classList, thrown>>

\* mutant: afterFrame is not called
AnimateFrameNoAfterFrame ==
  /\ pc = "frame"
  /\ frame' = frame + 1
  /\ calls' = Append(calls, Call("frame++", 0, 0, 0))
  /\ pc' = "schedule"
  /\ index' = 1
  /\ UNCHANGED <<n, shaders, programs, buffers, textures, nextTexture,
                 canvas, viewport, time, minDimension, glUniforms, screen,
                 now, pending, error, iteration, lastInit>>
  /\ UNCHANGED <<inputs, sourceIds, strategy, defaultUniforms, framebuffers,
                 classList, thrown, gl, glCalls>>

\* mutant: the clock is read again at the frame increment
AnimateFrameReadsClock ==
  /\ pc = "frame"
  /\ frame' = frame + 1
  /\ time' = now
  /\ calls' = Append(calls, Call("frame++", 0, 0, 0))
  /\ pc' = "afterFrame"
  /\ index' = 1
  /\ UNCHANGED <<n, shaders, programs, buffers, textures, nextTexture,
                 canvas, viewport, minDimension, glUniforms, screen,
                 now, pending, error, iteration, lastInit>>
  /\ UNCHANGED <<inputs, sourceIds, strategy, defaultUniforms, framebuffers,
                 classList, thrown, gl, glCalls>>

\* frame++
AnimateFrame ==
  /\ pc = "frame"
  /\ frame' = frame + 1
  /\ calls' = Append(calls, Call("frame++", 0, 0, 0))
  /\ pc' = "afterFrame"
  /\ index' = 1
  /\ UNCHANGED <<n, shaders, programs, buffers, textures, nextTexture,
                 canvas, viewport, time, minDimension, glUniforms, screen,
                 now, pending, error, iteration, lastInit>>
  /\ UNCHANGED <<inputs, sourceIds, strategy, defaultUniforms, framebuffers,
                 classList, thrown, gl, glCalls>>

\* programs.forEach(program => program.afterFrame())
\* ProgramWrapper.afterFrame is empty, the buffered one swaps the textures
AnimateAfterFrame ==
  /\ pc = "afterFrame"
  /\ buffers' = IF programs[index].buffered
                THEN [buffers EXCEPT ![index] = swapTextures(@)]
                ELSE buffers
  /\ calls' = Append(calls, Call("afterFrame", index, 0, 0))
  /\ IF index = Len(programs)
     THEN pc' = "schedule" /\ index' = 1
     ELSE pc' = "afterFrame" /\ index' = index + 1
  /\ UNCHANGED <<n, shaders, programs, textures, nextTexture, canvas,
                 viewport, frame, time, minDimension, glUniforms, screen,
                 now, pending, error, iteration, lastInit>>
  /\ UNCHANGED <<inputs, sourceIds, strategy, defaultUniforms, framebuffers,
                 classList, thrown, gl, glCalls>>

\* mutant: the iteration ends without the request
AnimateScheduleNoRequest ==
  /\ pc = "schedule"
  /\ calls' = Append(calls, Call("requestAnimationFrame", 0, 0, 0))
  /\ pc' = "idle"
  /\ UNCHANGED <<n, index, shaders, programs, buffers, textures, nextTexture,
                 canvas, viewport, frame, time, minDimension, glUniforms,
                 screen, now, error, iteration, lastInit, pending>>
  /\ UNCHANGED <<inputs, sourceIds, strategy, defaultUniforms, framebuffers,
                 classList, thrown, gl, glCalls>>

\* requestAnimationFrame(animate)
AnimateSchedule ==
  /\ pc = "schedule"
  /\ pending' = pending + 1
  /\ calls' = Append(calls, Call("requestAnimationFrame", 0, 0, 0))
  /\ pc' = "idle"
  /\ UNCHANGED <<n, index, shaders, programs, buffers, textures, nextTexture,
                 canvas, viewport, frame, time, minDimension, glUniforms,
                 screen, now, error, iteration, lastInit>>
  /\ UNCHANGED <<inputs, sourceIds, strategy, defaultUniforms, framebuffers,
                 classList, thrown, gl, glCalls>>

\* the host runs the scheduled callback at the next display refresh
RefreshCallback ==
  /\ pc = "idle"
  /\ pending > 0
  /\ pending' = pending - 1
  /\ pc' = "animate"
  /\ UNCHANGED <<n, index, shaders, programs, buffers, textures, nextTexture,
                 canvas, viewport, frame, time, minDimension, glUniforms,
                 screen, now, error, iteration, calls, lastInit>>
  /\ UNCHANGED <<inputs, sourceIds, strategy, defaultUniforms, framebuffers,
                 classList, thrown, gl, glCalls>>

\* ---- environment ----
\* the layout gives the canvas another presented size
SurfaceResized ==
  /\ \E w \in Dims, h \in Dims :
       /\ <<w, h>> # <<canvas.clientWidth, canvas.clientHeight>>
       /\ canvas' = [canvas EXCEPT !.clientWidth = w, !.clientHeight = h]
  /\ UNCHANGED <<n, pc, index, shaders, programs, buffers, textures,
                 nextTexture, viewport, frame, time, minDimension, glUniforms,
                 screen, now, pending, error, iteration, calls, lastInit>>
  /\ UNCHANGED <<inputs, sourceIds, strategy, defaultUniforms, framebuffers,
                 classList, thrown, gl, glCalls>>

\* the monotonic clock advances
ClockTick ==
  /\ now < MaxNow
  /\ now' = now + 1
  /\ UNCHANGED <<n, pc, index, shaders, programs, buffers, textures,
                 nextTexture, canvas, viewport, frame, time, minDimension,
                 glUniforms, screen, pending, error, iteration, calls,
                 lastInit>>
  /\ UNCHANGED <<inputs, sourceIds, strategy, defaultUniforms, framebuffers,
                 classList, thrown, gl, glCalls>>

\* every step of the program and of the host's scheduler
NextProgram ==
  \/ Shade
  \/ NewGlWrapper
  \/ ShadeCatch
  \/ SetupProgram
  \/ ForceResize
  \/ AnimatePoll
  \/ updateViewportSize
  \/ AnimateReset
  \/ AnimateInit
  \/ AnimateDraw
  \/ AnimateFrame
  \/ AnimateAfterFrame
  \/ AnimateSchedule
  \/ RefreshCallback

Next ==
  \/ NextProgram
  \/ SurfaceResized
  \/ ClockTick

Spec == Init /\ [][Next]_vars

\* ---- the program over its inputs, on a surface that is not resized ----
ScriptLists ==
  {ids \in UNION {[1..k -> ScriptIds] : k \in 0..MaxPasses} :
     \A i, j \in DOMAIN ids : ids[i] = ids[j] => i = j}

\* any list of distinct script ids (none included), built-in uniforms only
InitScripts ==
  /\ scripts \in ScriptLists
  /\ config = DefaultConfig(scripts)
  /\ declared = DefaultDeclared(scripts)
  /\ host = FullHost
  /\ canvas \in [width : {MaxDim}, height : {MaxDim},
                 clientWidth : Dims, clientHeight : Dims]

\* any uniform tables and any declared uniforms, per pass, for up to
\* MaxTablePasses passes
InitUniforms ==
  /\ scripts \in {DefaultScripts(k) : k \in 1..MaxTablePasses}
  /\ config \in [fallback : {FALSE},
                 shaders : [Range(scripts) -> CustomUniforms]]
  /\ declared \in [Range(scripts) -> Declarations]
  /\ host = FullHost
  /\ canvas \in {[width |-> MaxDim, height |-> MaxDim,
                   clientWidth |-> d, clientHeight |-> d] : d \in {0, MaxDim}}

\* any host and either value of config.fallback
InitHost ==
  /\ scripts \in {DefaultScripts(k) : k \in 1..MaxPasses}
  /\ config \in [fallback : BOOLEAN,
                 shaders : {DefaultConfig(scripts).shaders}]
  /\ declared = DefaultDeclared(scripts)
  /\ host \in [webgl2 : BOOLEAN, webgl : BOOLEAN, extensions : SUBSET Extensions]
  /\ canvas = [width |-> MaxDim, height |-> MaxDim,
               clientWidth |-> MaxDim, clientHeight |-> MaxDim]

InitInputs == Start /\ (InitScripts \/ InitUniforms \/ InitHost)

SpecInputs == InitInputs /\ [][NextProgram]_vars

\* the script runs every handler to its end and the host runs a requested
\* callback at a following display refresh
SpecInputsFair == SpecInputs /\ WF_vars(NextProgram)

\* ---- helpers of the properties ----
IsPrefix(s, t) ==
  /\ Len(s) <= Len(t)
  /\ \A k \in 1..Len(s) : s[k] = t[k]

\* the running iteration has detected a resize
ResizeDetected == calls # <<>> /\ calls[1][1] = "updateSize"

\* the iteration that started last has run to its end
IterationDone == iteration >= 1 /\ pc \in {"idle", "animate"}

Constructed(b) == b.inTexture = Null /\ b.outTexture = Null

PassCalls == SelectSeq(calls, LAMBDA c : c[1] \in {"draw", "afterFrame"})

ExpectedPassCalls ==
  [k \in 1..(2 * Len(programs)) |->
     IF k <= Len(programs) THEN Call("draw", k, 0, 0)
     ELSE Call("afterFrame", k - Len(programs), 0, 0)]

\* C1: init has been called on a pass before it is drawn, for every presented
\* size including 0x0 at startup: a buffered pass is never drawn while its
\* DoubleBuffer is as constructed (inTexture and outTexture both null).
\* (Stated for runs in which every program linked.)
C1_InitBeforeFirstDraw ==
  \A k \in DOMAIN calls :
    (/\ calls[k][1] = "draw"
     /\ programs[calls[k][2]].buffered
     /\ \A i \in DOMAIN programs : programs[i].linked) =>
      /\ lastInit[calls[k][2]] # <<>>
      /\ ~Constructed(buffers[calls[k][2]])

\* C2: in every iteration the draw and afterFrame calls are draw 1..n followed
\* by afterFrame 1..n: each pass once, in list order, all draws before the
\* first afterFrame; at the end of the iteration all of them have been made.
C2_DrawsThenAfterFrames ==
  /\ IsPrefix(PassCalls, ExpectedPassCalls)
  /\ (pc \in {"schedule", "idle"} \/ IterationDone) => PassCalls = ExpectedPassCalls

C2_Witness ==
  /\ pc = "idle"
  /\ iteration >= 2
  /\ Len(programs) >= 3
  /\ PassCalls = ExpectedPassCalls

\* the calls of an iteration that resizes to width x height
ExpectedResizeCalls(width, height) ==
  <<Call("updateSize", 0, width, height), Call("viewport", 0, width, height),
    Call("frameReset", 0, 0, 0)>>
  \o [k \in 1..Len(programs) |-> Call("init", k, width, height)]
  \o [k \in 1..Len(programs) |-> Call("draw", k, 0, 0)]
  \o <<Call("frame++", 0, 0, 0)>>
  \o [k \in 1..Len(programs) |-> Call("afterFrame", k, 0, 0)]
  \o <<Call("requestAnimationFrame", 0, 0, 0)>>

HasCall(op) == \E k \in DOMAIN calls : calls[k][1] = op

C3_ResizeOrder ==
  ResizeDetected =>
    /\ IsPrefix(calls, ExpectedResizeCalls(canvas.width, canvas.height))
    /\ HasCall("viewport") => viewport = <<canvas.width, canvas.height>>
    /\ (HasCall("frameReset") /\ ~HasCall("frame++")) => frame = 0
    /\ \A k \in DOMAIN calls :
         calls[k][1] = "init" =>
           /\ lastInit[calls[k][2]] = <<canvas.width, canvas.height>>
           /\ programs[calls[k][2]].buffered =>
                /\ ~Constructed(buffers[calls[k][2]])
                /\ textures[buffers[calls[k][2]].inTexture].width = canvas.width
                /\ textures[buffers[calls[k][2]].inTexture].height = canvas.height

C3_Detects ==
  (/\ pc = "animate" /\ pc' # "animate"
   /\ (canvas.width # canvas.clientWidth \/ canvas.height # canvas.clientHeight))
  => /\ canvas'.width = canvas.clientWidth
     /\ canvas'.height = canvas.clientHeight
     /\ calls' = <<Call("updateSize", 0, canvas.clientWidth, canvas.clientHeight)>>

\* C3: an iteration that finds the backing size different from the presented
\* size updates the backing size, then the viewport, then resets the frame
\* counter to 0, then calls init(width, height) with the new backing size on
\* every pass in list order, all before the first draw of that iteration.
C3_ResizeSequence == []C3_ResizeOrder /\ [][C3_Detects]_vars

C3_Witness ==
  /\ ResizeDetected
  /\ iteration >= 2
  /\ Len(programs) >= 2
  /\ canvas.width > 0 /\ canvas.height > 0
  /\ HasCall("draw")

\* C4: the value the setter F uploads is 0 in the first iteration and in every
\* iteration that resizes, and in any other iteration it is 1 more than what
\* the same pass uploaded in the iteration before.
C4_FrameUniform ==
  [][\A i \in DOMAIN programs :
       (pc = "draw" /\ index = i /\ calls' # calls /\ "F" \in programs[i].uniforms)
       => glUniforms'[i].F =
            IF ResizeDetected \/ iteration = 1 THEN 0 ELSE glUniforms[i].F + 1]_vars

C4_Witness ==
  /\ pc = "frame"
  /\ iteration = 3
  /\ ResizeDetected
  /\ "F" \in programs[1].uniforms
  /\ glUniforms[1].F = 0
  /\ screen >= 2

C5_Buffered ==
  /\ \A i \in DOMAIN programs :
       /\ programs[i].buffered <=> i < n
       /\ i \in DOMAIN buffers <=> programs[i].buffered
  /\ pc \notin {"shade", "rejected", "construct", "setup", "failed"}
       => Len(programs) = n

C5_Fixed ==
  \A i \in DOMAIN programs : programs'[i].buffered = programs[i].buffered

\* C5: in a pass list of n >= 1 passes the last pass is not buffered and
\* every earlier pass is buffered; a pass's buffered flag never changes.
C5_OnlyLastNotBuffered == []C5_Buffered /\ [][C5_Fixed]_vars

C5_Witness ==
  /\ pc = "idle"
  /\ Len(programs) = 3
  /\ ~programs[3].buffered
  /\ programs[1].buffered /\ programs[2].buffered

C6_TwoTextures ==
  \A i \in DOMAIN buffers :
    lastInit[i] # <<>> =>
      LET b == buffers[i]
      IN  /\ b.inTexture # Null /\ b.outTexture # Null
          /\ b.inTexture # b.outTexture
          /\ {b.inTexture, b.outTexture} \subseteq DOMAIN textures
          /\ \A t \in {b.inTexture, b.outTexture} :
               <<textures[t].width, textures[t].height>> = lastInit[i]

C6_SwapOnlyExchanges ==
  (pc = "afterFrame" /\ calls' # calls) =>
    /\ DOMAIN textures' = DOMAIN textures
    /\ \A t \in DOMAIN textures : textures'[t] = textures[t]
    /\ nextTexture' = nextTexture
    /\ \A i \in DOMAIN buffers :
         /\ {buffers'[i].inTexture, buffers'[i].outTexture}
              = {buffers[i].inTexture, buffers[i].outTexture}
         /\ buffers'[i].fbo = buffers[i].fbo

\* C6: once init(width, height) has run on a buffered pass, whatever draws,
\* swaps and inits follow, inTexture and outTexture are two different non-null
\* live textures of the size of the latest init; a swap creates, deletes and
\* changes no texture, it only exchanges the two references.
C6_DistinctSizedTextures == []C6_TwoTextures /\ [][C6_SwapOnlyExchanges]_vars

C6_Witness ==
  /\ pc = "idle"
  /\ iteration = 3
  /\ nextTexture >= 4
  /\ 1 \in DOMAIN buffers
  /\ lastInit[1] = <<1, 1>>
  /\ buffers[1].inTexture > buffers[1].outTexture

\* C7: swapTextures applied twice gives back the read/write assignment it
\* started from, and applied once makes the write texture the read texture and
\* the read texture the write texture, in every state a DoubleBuffer reaches.
C7_SwapInvolution ==
  \A i \in DOMAIN buffers :
    LET b == buffers[i]
    IN  /\ swapTextures(swapTextures(b)) = b
        /\ swapTextures(b).inTexture = b.outTexture
        /\ swapTextures(b).outTexture = b.inTexture

C7_Witness ==
  \E i \in DOMAIN buffers :
    /\ buffers[i].inTexture # Null
    /\ buffers[i].inTexture # buffers[i].outTexture
    /\ \E k \in DOMAIN calls : calls[k] = Call("afterFrame", i, 0, 0)
    /\ iteration >= 2

\* the feedback scenario: at least two passes, all linked, and the first
\* pass's textures have been initialised
FeedbackScenario ==
  /\ Len(programs) >= 2
  /\ \A i \in DOMAIN programs : programs[i].linked
  /\ lastInit[1] # <<>>

C8_DisplayedIsCount ==
  (FeedbackScenario /\ pc \in {"schedule", "idle"}) =>
    /\ screen = frame
    /\ textures[buffers[1].inTexture].val = frame

C8_DisplayedAdvances ==
  (FeedbackScenario /\ pc = "draw" /\ index = Len(programs) /\ calls' # calls)
  => screen' = IF ResizeDetected THEN 1 ELSE screen + 1

\* C8: with a buffered first pass writing (its read texture) + 1 and the last
\* pass showing the first pass's output of the same iteration, the value shown
\* is 1 after the iteration that initialised the textures and 1 more after
\* each further iteration without a resize: after N such iterations it is N.
C8_FeedbackCounts == []C8_DisplayedIsCount /\ [][C8_DisplayedAdvances]_vars

C8_Witness ==
  /\ FeedbackScenario
  /\ pc = "idle"
  /\ frame = 3
  /\ screen = 3

CompileFailed == \E k \in DOMAIN shaders : ~shaders[k].compiled

LinkFailed == \E k \in DOMAIN shaders : shaders[k].compiled /\ ~shaders[k].linked

\* C9: when the fragment source of any pass does not compile, doShade throws
\* the GlError and stops: no pass is ever drawn, also none that compiled
\* before, and no iteration is run or scheduled.
C9_CompileFailureAborts ==
  CompileFailed =>
    /\ error = "GlError"
    /\ pc = "failed"
    /\ iteration = 0
    /\ calls = <<>>
    /\ pending = 0
    /\ screen = 0
    /\ textures = <<>>

C9_Witness ==
  /\ CompileFailed
  /\ pc = "failed"
  /\ Len(programs) = 2
  /\ n = 3

\* C10: when linking fails for some pass, a GlError is thrown during setup:
\* no iteration of the loop runs and no pass is drawn.
C10_LinkFailureAborts ==
  LinkFailed => (iteration = 0 /\ pending = 0 /\ ~HasCall("draw"))

\* the canvas gives no context, or the context it gives lacks an extension
\* its strategy requires
HostUnusable ==
  \/ ~host.webgl2 /\ ~host.webgl
  \/ host.webgl2 /\ "EXT_color_buffer_float" \notin host.extensions
  \/ /\ ~host.webgl2 /\ host.webgl
     /\ ~({"OES_texture_half_float", "OES_texture_half_float_linear"}
            \subseteq host.extensions)

ConstructorHasRun == pc \notin {"shade", "rejected", "construct"}

NothingCompiledOrDrawn ==
  /\ shaders = <<>>
  /\ programs = <<>>
  /\ iteration = 0
  /\ calls = <<>>
  /\ pending = 0
  /\ screen = 0

C13_SupplyOrder ==
  pc \notin {"shade", "rejected"} =>
    /\ sourceIds = scripts
    /\ \A i \in DOMAIN programs : programs[i].id = scripts[i]
    /\ Len(programs) = Len(scripts) =>
         /\ programs[Len(scripts)].id = scripts[Len(scripts)]
         /\ ~programs[Len(scripts)].buffered

Caught == thrown # "none" \/ "fallback" \in classList

C14_Outcome ==
  /\ pc \notin {"failed", "rejected"} => (thrown = "none" /\ classList = {})
  /\ (pc = "failed" /\ config.fallback) => thrown = "none"
  /\ (pc = "failed" /\ ~config.fallback) => classList = {}
  /\ (pc = "failed" /\ thrown # "none") => thrown = error

C14_Catch ==
  (pc = "failed" /\ ~Caught) =>
    IF config.fallback
    THEN classList' = {"fallback"} /\ thrown' = "none" /\ pc' = "failed"
    ELSE classList' = {} /\ thrown' = error /\ error' = error

\* C14: when doShade raises, shade swallows the error and adds the fallback
\* class if config.fallback is set, and otherwise lets the same error reach
\* its caller without adding the class; when doShade raises nothing the class
\* is never added.
C14_FallbackOrRethrow == []C14_Outcome /\ [][C14_Catch]_vars

C14_Witness ==
  /\ pc = "failed"
  /\ config.fallback
  /\ "fallback" \in classList
  /\ Len(programs) >= 1
  /\ error = "GlError"

\* the passes that supplied a setter of the name themselves
Supplied(id, name) ==
  \E j \in DOMAIN config.shaders[id] : config.shaders[id][j] = name

\* C12: the setter table of a pass holds the built-ins and the setters that
\* pass supplied itself only: a setter supplied for another pass is neither in
\* the table of the pass nor called during its draw.
C12_OwnSettersOnly ==
  /\ \A i \in DOMAIN programs :
       \A j \in DOMAIN programs[i].setters :
         LET setter == programs[i].setters[j]
         IN  IF Supplied(programs[i].id, setter.name)
             THEN setter.from = programs[i].id
             ELSE setter.from = "default" /\ setter.name \in Range(BuiltinNames)
  /\ \A k \in DOMAIN glCalls :
       glCalls[k][1] = "setter" =>
         glCalls[k][3] \in {"default", programs[glCalls[1][2]].id}

\* the iteration is between its first draw and its reschedule
AfterFirstDraw ==
  pc \in {"draw", "frame", "afterFrame", "schedule"} /\ HasCall("draw")

\* the backing pixel size of the surface
PixelSize == <<canvas.width, canvas.height>>

\* C15 as claimed: time, frame, minDimension and the pixel size of the surface
\* change at the start of an iteration only and none of them changes between
\* the first draw of an iteration and its reschedule.
C15_NoChangeAfterFirstDraw ==
  [][AfterFirstDraw => UNCHANGED <<time, frame, minDimension, PixelSize>>]_vars

C15_Step ==
  /\ time' # time => pc = "animate"
  /\ PixelSize' # PixelSize => pc \in {"forceResize", "animate"}
  /\ minDimension' # minDimension => pc = "reset"
  /\ frame' # frame =>
       \/ pc = "reset" /\ frame' = 0
       \/ /\ pc = "frame" /\ frame' = frame + 1
          /\ PassCalls = [k \in 1..Len(programs) |-> Call("draw", k, 0, 0)]
  /\ pc \in {"viewport", "reset", "init"} => ~HasCall("draw")
  /\ AfterFirstDraw => UNCHANGED <<time, minDimension, PixelSize>>
  /\ (AfterFirstDraw /\ pc # "frame") => frame' = frame

\* C15 amended: time, minDimension and the pixel size change at the start of
\* an iteration only, before the first draw, and are unchanged from the first
\* draw to the reschedule; frame is reset at the start only and is incremented
\* once in every iteration, after the last draw and before the first
\* afterFrame, so that all draws of an iteration see one value of it.
C15_StableButFrame == [][C15_Step]_vars

C15_Witness ==
  /\ pc = "schedule"
  /\ iteration >= 2
  /\ frame = 2
  /\ now > time
  /\ <<canvas.clientWidth, canvas.clientHeight>> # PixelSize

\* the passes drawn so far in the iteration
Drawn == {calls[k][2] : k \in {d \in DOMAIN calls : calls[d][1] = "draw"}}

\* the built-in values a drawn pass was given
Observed(pass) ==
  <<glUniforms[pass].R, glUniforms[pass].T, glUniforms[pass].F,
    glUniforms[pass].D>>

TextureSize(texture) ==
  IF texture \in DOMAIN textures
  THEN <<textures[texture].width, textures[texture].height>>
  ELSE <<>>

\* the iteration is between its first draw and the frame increment
Drawing == pc \in {"draw", "frame"} /\ Drawn # {}

\* C16: whenever the presented size changes, the passes drawn in one iteration
\* are given the same R, T, F and D, those of the poll at the start of the
\* iteration, and the two textures of a buffered pass that is drawn have the
\* pixel size that R reports.
C16_OneSizePerIteration ==
  Drawing =>
    /\ \A i \in Drawn :
         programs[i].linked =>
           Observed(i) = <<PixelSize, time, frame, minDimension>>
    /\ \A i \in Drawn :
         programs[i].buffered =>
           /\ TextureSize(buffers[i].inTexture) = PixelSize
           /\ TextureSize(buffers[i].outTexture) = PixelSize

\* the pass of the latest draw and the place of its drawArrays call
DrawnPass == glCalls[1][2]

QuadIndex == CHOOSE k \in DOMAIN glCalls : glCalls[k][1] = "drawArrays"

\* the bindings when the quad of the latest draw was drawn (every draw starts
\* from the bindings it leaves)
AtQuad == GlRun(gl, glCalls, QuadIndex)

NothingBound(g) ==
  /\ g.framebuffer = Null
  /\ g.texture = Null
  /\ \A f \in DOMAIN g.color : g.color[f] = Null

\* C17: while the quad of a buffered pass is drawn, the framebuffer of the pass
\* is bound with its write texture as the colour attachment and its read
\* texture, another texture, is bound on unit 0; after a draw no framebuffer
\* and no texture is bound and nothing is attached, so the quad of the pass
\* that is not buffered is drawn with no framebuffer bound.
C17_BindingsAtQuad ==
  /\ NothingBound(gl)
  /\ DOMAIN gl.color = framebuffers
  /\ Drawing =>
       IF programs[DrawnPass].buffered
       THEN LET b == buffers[DrawnPass]
            IN  /\ AtQuad.framebuffer = b.fbo
                /\ b.outTexture \in DOMAIN textures
                /\ AtQuad.color[b.fbo] = b.outTexture
                /\ b.inTexture \in DOMAIN textures
                /\ AtQuad.texture = b.inTexture
                /\ b.inTexture # b.outTexture
       ELSE NothingBound(AtQuad)

\* the textures a DoubleBuffer holds
Held(b) == {b.inTexture, b.outTexture} \ {Null}

C18_Live ==
  /\ \A i \in DOMAIN buffers :
       /\ Held(buffers[i]) \subseteq DOMAIN textures
       /\ Cardinality(Held(buffers[i])) = IF lastInit[i] = <<>> THEN 0 ELSE 2
       /\ \A j \in DOMAIN buffers :
            i # j => Held(buffers[i]) \cap Held(buffers[j]) = {}
       /\ buffers[i].fbo \in framebuffers
  /\ DOMAIN textures = UNION {Held(buffers[i]) : i \in DOMAIN buffers}
  /\ Cardinality(framebuffers) = Len(buffers)

C18_Init ==
  /\ (pc = "init" /\ calls' # calls /\ programs[index].buffered) =>
       LET old == Held(buffers[index])
           new == Held(buffers'[index])
       IN  /\ Cardinality(new) = 2
           /\ new \cap DOMAIN textures = {}
           /\ DOMAIN textures' = ((DOMAIN textures) \ old) \cup new
           /\ buffers'[index].fbo = buffers[index].fbo
  /\ DOMAIN textures' # DOMAIN textures => pc = "init"
  /\ framebuffers' # framebuffers => pc = "setup"

\* C18: every init of a DoubleBuffer deletes the two textures it held and
\* creates two new ones: a buffer holds no live texture before its first init
\* and two after it, no texture it has dropped stays live, and its framebuffer
\* is the one created by the constructor (no init creates or deletes one).
C18_TwoLiveTextures == []C18_Live /\ [][C18_Init]_vars

C18_Witness ==
  /\ pc = "draw"
  /\ ResizeDetected
  /\ iteration >= 2
  /\ Len(buffers) = 2
  /\ nextTexture >= 8
  /\ Cardinality(DOMAIN textures) = 4

\* doShade has reached its animation loop
LoopStarted ==
  pc \in {"animate", "viewport", "reset", "init", "draw", "frame",
          "afterFrame", "schedule", "idle"}

Requests ==
  Len(SelectSeq(calls, LAMBDA c : c[1] = "requestAnimationFrame"))

C19_OnePending ==
  /\ pending \in {0, 1}
  /\ pending = 1 <=> pc = "idle"
  /\ Requests <= 1
  /\ pc = "idle" =>
       /\ Requests = 1
       /\ calls[Len(calls)][1] = "requestAnimationFrame"
       /\ PassCalls = ExpectedPassCalls
  /\ pc \in {"viewport", "reset", "init", "draw", "frame", "afterFrame",
              "schedule"} => Requests = 0

C19_Request ==
  /\ pending' > pending => (pc = "schedule" /\ LoopStarted')
  /\ LoopStarted => (LoopStarted' /\ error' = "none" /\ thrown' = "none")

\* the iteration after the k-th is run to its end: every pass drawn and the
\* next callback requested
C19_NextIteration(k) ==
  (LoopStarted /\ iteration = k) ~>
    (iteration = k + 1 /\ pc = "idle" /\ pending = 1
       /\ PassCalls = ExpectedPassCalls)

\* C19: once the loop has started it never ends: every iteration ends with one
\* request of the next one, at most one callback is pending, and when the
\* host runs the requested callbacks every iteration is followed by another
\* in which every pass is drawn (for the iterations up to MaxIterations).
C19_LoopForever ==
  /\ []C19_OnePending
  /\ [][C19_Request]_vars
  /\ \A k \in 0..(MaxIterations - 1) : C19_NextIteration(k)

C19_Witness ==
  /\ iteration = MaxIterations
  /\ pc = "idle"
  /\ pending = 1
  /\ Len(programs) = MaxPasses
  /\ PassCalls = ExpectedPassCalls

\* every uniform name of the inputs
UniformNames == Range(BuiltinNames) \cup UNION {Range(u) : u \in CustomUniforms}

\* the names of the table handed to the constructor of the pass: the built-ins
\* and what has been assigned to defaultUniforms up to that pass
TableNames(pass) ==
  Range(BuiltinNames) \cup
    UNION {Range(config.shaders[programs[j].id]) : j \in 1..pass}

\* getUniformLocation finds the name in the program of the pass
Resolved(pass, name) ==
  /\ programs[pass].linked
  /\ name \in declared[programs[pass].id]
  /\ name \in TableNames(pass)

SetterCalls(name) ==
  {k \in DOMAIN glCalls : glCalls[k][1] = "setter" /\ glCalls[k][2] = name}

CallsOf(op) == {k \in DOMAIN glCalls : glCalls[k][1] = op}

\* C20: in every draw of a pass the setter of each uniform that resolved at
\* construction is called once and no setter of a name that is not declared is
\* called, without an error; the setter calls come before the one drawArrays
\* and, in a buffered pass, before the framebuffer is bound, and the texture on
\* unit 0 when the quad is drawn is the read texture of the DoubleBuffer.
C20_SettersOnceBeforeQuad ==
  Drawing =>
    /\ \A name \in UniformNames :
         Cardinality(SetterCalls(name)) =
           IF Resolved(DrawnPass, name) THEN 1 ELSE 0
    /\ Cardinality(CallsOf("drawArrays")) = 1
    /\ \A k \in CallsOf("setter") :
         /\ k < QuadIndex
         /\ \A f \in CallsOf("bindFramebuffer") \cup CallsOf("bindTexture") :
              k < f
    /\ IF programs[DrawnPass].buffered
       THEN /\ AtQuad.texture = buffers[DrawnPass].inTexture
            /\ AtQuad.framebuffer = buffers[DrawnPass].fbo
            /\ CallsOf("bindFramebuffer") # {}
       ELSE CallsOf("bindFramebuffer") = {}
    /\ error = "none"
    /\ thrown = "none"

C20_Witness ==
  /\ Drawing
  /\ programs[DrawnPass].buffered
  /\ lastInit[DrawnPass] # <<>>
  /\ buffers[DrawnPass].inTexture # Null
  /\ Resolved(DrawnPass, "X")
  /\ Cardinality(SetterCalls("X")) = 1
  /\ "R" \notin declared[programs[DrawnPass].id]
  /\ SetterCalls("R") = {}

====
